---- MODULE Spec2Model ----
(***************************************************************************)
(* A model of OpenPNM's Voronoi fibre geometry                            *)
(* (src/openpnm/materials/VoronoiFibers.py).                               *)
(*                                                                         *)
(* The module holds one state machine per method of VoronoiGeometry, each  *)
(* with its own specification:                                             *)
(*   SpecImage   _get_fibre_image, from the allocation to the two images   *)
(*   SpecChunks  the chunk loop of _get_fibre_image, entered with every    *)
(*               chunk length                                              *)
(*   SpecHull    in_hull_volume and _indiameter_from_fibres                *)
(*   SpecCount   _process_pore_voxels, entered with every label grid       *)
(*   SpecGeo     the statements of __init__ and the loop of _throat_props  *)
(*   SpecFacet   the image analysis of one throat in _throat_props         *)
(*   SpecCtrl    the Controller (src/OpenPNM/Base/__Controller__.py)       *)
(*   SpecRun     GenericReaction.run (src/openpnm/algorithms/Reaction.py)  *)
(*   SpecPhys    GenericPhysics.__init__ and set_phase                     *)
(*               (src/openpnm/physics/GenericPhysics.py)                   *)
(* Lengths are integers: voxel indices, and squared Euclidean distances.   *)
(* A distance-image value sqrt(d2) - fibre_rad is kept as the pair         *)
(* <<d2, fibre_rad>>, the float 0.0 as <<0, 0>>.                           *)
(***************************************************************************)
EXTENDS Integers, Sequences, FiniteSets, TLC

\* ------------------------------------------------------------- bounds
\* The longest axis of a voxel grid.
MaxL == 3
\* The most line points one rasterization handles.
MaxPts == 1
\* The largest fibre radius, in voxels.
MaxRad == 1
\* The largest chunk length the chunk loop is entered with.
MaxChunk == 2

\* The largest guess of run, in thousandths.
MaxX == 3
\* The largest tol the outermost call of run is given, in thousandths.
MaxTol == 2
\* The most invocations of run on the stack.
MaxDepth == 3

\* The most geometries of a project before a physics is constructed.
MaxGeoms == 2
\* The most physics of a project before another is constructed.
MaxPhys == 2

\* The most voxels of a grid.
MaxVox == 2 * MaxL

\* ---------------------------------------------------------- constants
\* chunk_len of the except branch.
ChunkLen == 100
\* The padding of a chunk is PadFactor * fibre_rad.
PadFactor == 5
\* The default tol of run, 0.001, in thousandths.
TolDefault == 1

\* A name that is not bound (a local never assigned): the array without
\* elements.
Unbound == [v \in {} |-> 0]
\* No hull vertices.
NoHull == [lo |-> <<0, 0, 0>>, hi |-> <<0, 0, 0>>, nf |-> 0]

VARIABLES
  \* _get_fibre_image
  pc,            \* position in _get_fibre_image
  lx, ly, lz,    \* the image size
  fibre_rad,     \* the fibre radius in voxels
  alloc_fail,    \* which of the three allocations raised (0: none)
  pore_space,    \* local: 1 pore space, 0 a fibre seed
  fibre_space,   \* local: the binary image being built
  dt,            \* local: the distance image being built
  chunk_len, cx, cy, cz,
  ci, cj, ck,    \* the chunk loop's counters
  npts,          \* line points handled so far
  pt,            \* the line point handled last
  fibre_image,   \* self._fibre_image
  dt_image,      \* self._dt_image
  \* in_hull_volume, inhull, _process_pore_voxels, _indiameter_from_fibres
  hpc,           \* position in in_hull_volume and what follows it
  Np,            \* num_pores() of the geometry
  Ps,            \* the internal pores, whose hulls are processed
  pore,          \* the pore the loop of in_hull_volume is at
  verts,         \* the hull vertices of the pore processed last
  dom,           \* inhull's classification of its bounding box
  hull_image,    \* self._hull_image
  classified,    \* history: per voxel, the pores whose hull held it
  failed,        \* history: the pores whose inhull raised
  pore_voxels,   \* self['pore.pore_voxels']
  fibre_voxels,  \* self['pore.fibre_voxels']
  pore_volume,   \* self['pore.volume']
  pore_indiameter,  \* self['pore.indiameter']
  pore_incenter, \* self['pore.incenter']
  \* __init__ and _throat_props
  gk,            \* the statement of __init__ that runs next
  gpc,           \* "init", "props" inside _throat_props, "done", "raised"
  log,           \* history: the statements of __init__ that have finished
  Nt,            \* the number of throats of the geometry
  throat_vertices,  \* self['throat.vertices']: the sides of each facet
  offset,        \* fibre_rad, in the unit of the vertices
  ti,            \* the throat the loop of _throat_props is at
  entered,       \* history: the throats whose extraction block ran
  throat_area,   \* area, then self['throat.area']
  throat_perimeter,
  throat_diameter,   \* equiv_diameter, then self['throat.diameter']
  throat_indiameter, \* inradius, then self['throat.indiameter']
  throat_centroid,
  throat_incentre,
  throat_offset_vertices,  \* eroded_verts
  active,        \* the throats of the network's topology
  throat_c2c,    \* self['throat.c2c']
  \* Controller
  cinstance,     \* Controller.__instance__: 0 for None, else the instance
  cmade,         \* the instances dict.__new__ has made
  ccalls,        \* history: the calls Controller() made
  crefs,         \* the instances the calls Controller() returned
  cdict,         \* per instance, its keys in the order of insertion
  ndicts,        \* the plain dicts clear() has made
  pdict,         \* per plain dict, its keys in the order of insertion
  cleared,       \* history: per plain dict, the Controller's keys before
                 \* the clear() that made it
  osim,          \* per object, its _sim
  marks,         \* <<o, f, n>>: object o holds the label f.<name of n>, or
                 \* lists object n in its attribute f
  cops,          \* the registry operations made
  last,          \* history: the operation made last
  \* the image analysis of one throat in _throat_props (lines 248-345)
  fpc,           \* "idle", "facet", "eroded", "done"
  int_pts,       \* the facet's vertices, rounded to pixels of img
  r_sq,          \* the whole part of the square of r, the scaled offset
  eroded,        \* the pixels of value 1 of eroded, in the indices of img
  regions,       \* len(regions)
  area_i,        \* area[i], in pixels
  offset_verts,  \* eroded_verts[i]: the pixels stored as offset vertices
  \* GenericReaction.run
  rpc,           \* "idle", "run" at line 56, "return", "done"
  rsolve,        \* alg.solve()[Ps] as a function of the guess x
  rtol,          \* the tol passed to the outermost call
  rstack,        \* the invocations of run: the x and the tol of each
  rcompared,     \* history: the tol of each test of line 72
  rmet,          \* history: the guess whose test of line 72 passed
  rvalue,        \* the value the invocation that ended last returned
  rresult,       \* what the outermost call returned
  \* GenericPhysics.__init__ and set_phase
  ppc,           \* "idle", "new" before __init__, "made", "raised"
  pphase,        \* the argument phase
  pgeometry,     \* the argument geometry
  pproject,      \* the objects of the project
  plabels,       \* <<phase, key>>: the phase holds the key
  plocations,    \* the geometries whose locations the physics took
  perror         \* history: the call of set_phase made last raised

imgVars == <<pc, lx, ly, lz, fibre_rad, alloc_fail, pore_space, fibre_space,
             dt, chunk_len, cx, cy, cz, ci, cj, ck, npts, pt, fibre_image,
             dt_image>>

hullVars == <<hpc, Np, Ps, pore, verts, dom, hull_image, classified, failed,
              pore_voxels, fibre_voxels, pore_volume, pore_indiameter,
              pore_incenter>>

geoVars == <<gk, gpc, log, Nt, throat_vertices, offset, ti, entered,
             throat_area, throat_perimeter, throat_diameter, throat_indiameter,
             throat_centroid, throat_incentre, throat_offset_vertices, active,
             throat_c2c>>

ctrlVars == <<cinstance, cmade, ccalls, crefs, cdict, ndicts, pdict, cleared, osim,
              marks, cops, last>>

facetVars == <<fpc, int_pts, r_sq, eroded, regions, area_i, offset_verts>>

runVars == <<rpc, rsolve, rtol, rstack, rcompared, rmet, rvalue, rresult>>

physVars == <<ppc, pphase, pgeometry, pproject, plabels, plocations, perror>>

vars == <<imgVars, hullVars, geoVars, ctrlVars, facetVars, runVars, physVars>>

\* What each method leaves alone: the state of the other methods.
notImage == <<hullVars, geoVars, ctrlVars, facetVars, runVars, physVars>>
notHull == <<pc, lx, ly, lz, fibre_rad, alloc_fail, pore_space, fibre_space,
             dt, chunk_len, cx, cy, cz, ci, cj, ck, npts, pt, geoVars,
             ctrlVars, facetVars, runVars, physVars>>
notGeo == <<imgVars, hullVars, ctrlVars, facetVars, runVars, physVars>>
notCtrl == <<imgVars, hullVars, geoVars, facetVars, runVars, physVars>>
notFacet == <<imgVars, hullVars, geoVars, ctrlVars, runVars, physVars>>
notRun == <<imgVars, hullVars, geoVars, ctrlVars, facetVars, physVars>>
notPhys == <<imgVars, hullVars, geoVars, ctrlVars, facetVars, runVars>>

\* ------------------------------------------------------------ helpers
Max2(a, b) == IF a >= b THEN a ELSE b
Min2(a, b) == IF a <= b THEN a ELSE b
SetMin(S) == CHOOSE m \in S : \A x \in S : m <= x
SetMax(S) == CHOOSE m \in S : \A x \in S : m >= x
\* ceil(a / b) for a >= 0, b > 0
CeilDiv(a, b) == (a + b - 1) \div b

\* The voxels of an array of shape (a, b, c).
Vox(a, b, c) == (0..(a-1)) \X (0..(b-1)) \X (0..(c-1))
\* The voxels of the slice [lo[1]:hi[1], lo[2]:hi[2], lo[3]:hi[3]].
Sub(lo, hi) == (lo[1]..(hi[1]-1)) \X (lo[2]..(hi[2]-1)) \X (lo[3]..(hi[3]-1))
Sq(x) == x * x
D2(a, b) == Sq(a[1]-b[1]) + Sq(a[2]-b[2]) + Sq(a[3]-b[3])

\* The possible grid shapes.
Shapes == {s \in (1..MaxL) \X (1..MaxL) \X (1..MaxL) : s[1]*s[2]*s[3] <= MaxVox}

\* ndimage.distance_transform_edt of the slice [lo:hi] of ps, squared, at
\* voxel v of the slice: the distance to the nearest zero of the slice.  A
\* slice without a zero has no feature: scipy leaves the feature index at -1
\* on every axis, so the distance is the one to the slice's index (-1,-1,-1).
EdtSq(ps, lo, hi, v) ==
  LET seeds == {s \in Sub(lo, hi) : ps[s] = 0}
  IN IF seeds = {}
     THEN Sq(v[1]-lo[1]+1) + Sq(v[2]-lo[2]+1) + Sq(v[3]-lo[3]+1)
     ELSE SetMin({D2(v, s) : s \in seeds})

\* A distance-image value sqrt(d2) - r.
DtZero == <<0, 0>>
DtNeg(x) == x[1] < Sq(x[2])
DtPos(x) == x[1] > Sq(x[2])

\* ------------------------------------------------- _get_fibre_image
\* The number of chunks along an axis of length len (lines 525-536).
ChunkCount(len, clen) == IF len > clen THEN CeilDiv(len, clen) ELSE 1

\* Python's index i into an axis of length len: the element it names, or -1
\* for an IndexError.  A negative index counts from the end.
PyIndex(i, len) ==
  IF i >= 0 /\ i < len THEN i
  ELSE IF i < 0 /\ i >= -len THEN i + len
  ELSE -1

\* try: the three full-domain arrays (lines 513-519).
TryAlloc ==
  /\ pc = "alloc"
  /\ pore_space' = [v \in Vox(lx, ly, lz) |-> 1]
  /\ fibre_space' = [v \in Vox(lx, ly, lz) |-> 0]
  /\ dt' = [v \in Vox(lx, ly, lz) |-> DtZero]
  /\ cx' = 1 /\ cy' = 1 /\ cz' = 1
  /\ chunk_len' = Max2(lx, Max2(ly, lz))
  /\ pc' = "raster"
  /\ UNCHANGED notImage
  /\ UNCHANGED <<lx, ly, lz, fibre_rad, alloc_fail, ci, cj, ck, npts, pt,
                 fibre_image, dt_image>>

\* except: allocation k raised; the arrays before it are bound, the others
\* are not (lines 514-516, 520-536).
AllocFail(k) ==
  /\ pc = "alloc"
  /\ alloc_fail' = k
  /\ pore_space' = IF k > 1 THEN [v \in Vox(lx, ly, lz) |-> 1] ELSE Unbound
  /\ fibre_space' = IF k > 2 THEN [v \in Vox(lx, ly, lz) |-> 0] ELSE Unbound
  /\ dt' = Unbound
  /\ chunk_len' = ChunkLen
  /\ cx' = ChunkCount(lx, ChunkLen)
  /\ cy' = ChunkCount(ly, ChunkLen)
  /\ cz' = ChunkCount(lz, ChunkLen)
  /\ pc' = "raster"
  /\ UNCHANGED notImage
  /\ UNCHANGED <<lx, ly, lz, fibre_rad, ci, cj, ck, npts, pt, fibre_image,
                 dt_image>>

\* The voxel pore_space[x][y][z] names, or <<>> when an index is out of
\* range (lines 543-544).
RasterTarget(p) ==
  LET x == PyIndex(p[1], lx)
      y == PyIndex(p[2], ly)
      z == PyIndex(p[3], lz)
  IN IF x < 0 \/ y < 0 \/ z < 0 THEN <<>> ELSE <<x, y, z>>

\* One turn of the loop over line_ints (lines 541-546).  An unbound
\* pore_space raises NameError, which the except IndexError does not catch.
RasterPoint ==
  /\ pc = "raster"
  /\ npts < MaxPts
  /\ \E p \in ((-lx-1)..lx) \X ((-ly-1)..ly) \X ((-lz-1)..lz) :
       /\ pt' = p
       /\ npts' = npts + 1
       /\ IF pore_space = Unbound
          THEN /\ pc' = "raised"
               /\ UNCHANGED pore_space
          ELSE /\ pc' = pc
               /\ pore_space' = IF RasterTarget(p) = <<>>
                                THEN pore_space
                                ELSE [pore_space EXCEPT ![RasterTarget(p)] = 0]
  /\ UNCHANGED notImage
  /\ UNCHANGED <<lx, ly, lz, fibre_rad, alloc_fail, fibre_space, dt, chunk_len,
                 cx, cy, cz, ci, cj, ck, fibre_image, dt_image>>

\* The loop over line_ints ends; the chunk loop starts (lines 548-552).
RasterEnd ==
  /\ pc = "raster"
  /\ pc' = "chunks"
  /\ ci' = 0 /\ cj' = 0 /\ ck' = 0
  /\ pt' = <<>>
  /\ UNCHANGED notImage
  /\ UNCHANGED <<lx, ly, lz, fibre_rad, alloc_fail, pore_space, fibre_space,
                 dt, chunk_len, cx, cy, cz, npts, fibre_image, dt_image>>

\* The range of chunk i along an axis of length len (lines 556-568).
ChunkMin(i, clen) == i * clen
ChunkMax(i, clen, rad, len) == Min2((i + 1) * clen + PadFactor * rad, len)

ChunkLo == <<ChunkMin(ci, chunk_len), ChunkMin(cj, chunk_len),
             ChunkMin(ck, chunk_len)>>
ChunkHi == <<ChunkMax(ci, chunk_len, fibre_rad, lx),
             ChunkMax(cj, chunk_len, fibre_rad, ly),
             ChunkMax(ck, chunk_len, fibre_rad, lz)>>

\* fibre_space after a chunk's two masked assignments (lines 573-578).
ChunkFibre(fs, ps, lo, hi, rad) ==
  [v \in DOMAIN fs |->
     IF v \in Sub(lo, hi)
     THEN IF EdtSq(ps, lo, hi, v) <= Sq(rad) THEN 0 ELSE 1
     ELSE fs[v]]

\* dt after a chunk's assignment of dtc - fibre_rad (lines 579-581).
ChunkDt(d, ps, lo, hi, rad) ==
  [v \in DOMAIN d |->
     IF v \in Sub(lo, hi) THEN <<EdtSq(ps, lo, hi, v), rad>> ELSE d[v]]

\* The counters of the chunk after (ci, cj, ck), or <<>> after the last.
NextChunk ==
  IF ck + 1 < cz THEN <<ci, cj, ck + 1>>
  ELSE IF cj + 1 < cy THEN <<ci, cj + 1, 0>>
  ELSE IF ci + 1 < cx THEN <<ci + 1, 0, 0>>
  ELSE <<>>

\* One chunk (lines 553-582).  The distance transform reads pore_space, the
\* masked assignments write fibre_space, then dt is written: the first
\* unbound name met raises NameError.
Chunk ==
  /\ pc = "chunks"
  /\ IF pore_space = Unbound \/ fibre_space = Unbound
     THEN /\ pc' = "raised"
          /\ UNCHANGED <<fibre_space, dt, ci, cj, ck>>
     ELSE /\ fibre_space' = ChunkFibre(fibre_space, pore_space, ChunkLo,
                                       ChunkHi, fibre_rad)
          /\ IF dt = Unbound
             THEN /\ pc' = "raised"
                  /\ UNCHANGED <<dt, ci, cj, ck>>
             ELSE /\ dt' = ChunkDt(dt, pore_space, ChunkLo, ChunkHi, fibre_rad)
                  /\ IF NextChunk = <<>>
                     THEN /\ pc' = "final"
                          /\ UNCHANGED <<ci, cj, ck>>
                     ELSE /\ pc' = pc
                          /\ ci' = NextChunk[1]
                          /\ cj' = NextChunk[2]
                          /\ ck' = NextChunk[3]
  /\ UNCHANGED notImage
  /\ UNCHANGED <<lx, ly, lz, fibre_rad, alloc_fail, pore_space, chunk_len,
                 cx, cy, cz, npts, pt, fibre_image, dt_image>>

\* The distance image left as the chunks wrote it.
ClampNone(d) == d

\* dt[dt < 0] = 0 (line 585).
ClampDt(d) == [v \in DOMAIN d |-> IF DtNeg(d[v]) THEN DtZero ELSE d[v]]

\* After the chunk loop (lines 583-586).  The locals keep their last value.
Finalise ==
  /\ pc = "final"
  /\ fibre_image' = fibre_space
  /\ dt' = ClampDt(dt)
  /\ dt_image' = ClampDt(dt)
  /\ pc' = "done"
  /\ UNCHANGED notImage
  /\ UNCHANGED <<lx, ly, lz, fibre_rad, alloc_fail, pore_space, fibre_space,
                 chunk_len, cx, cy, cz, ci, cj, ck, npts, pt>>

\* No geometry is being assembled around _get_fibre_image.
IdleHull ==
  /\ hpc = "idle"
  /\ Np = 0 /\ Ps = {} /\ pore = 0
  /\ verts = NoHull /\ dom = Unbound
  /\ hull_image = Unbound /\ classified = Unbound /\ failed = {}
  /\ pore_voxels = Unbound /\ fibre_voxels = Unbound /\ pore_volume = Unbound
  /\ pore_indiameter = Unbound /\ pore_incenter = Unbound

\* No geometry is being constructed.
IdleGeo ==
  /\ gk = 0 /\ gpc = "idle" /\ log = <<>>
  /\ Nt = 0 /\ throat_vertices = Unbound /\ offset = 0 /\ ti = 0
  /\ entered = {}
  /\ throat_area = Unbound /\ throat_perimeter = Unbound
  /\ throat_diameter = Unbound /\ throat_indiameter = Unbound
  /\ throat_centroid = Unbound /\ throat_incentre = Unbound
  /\ throat_offset_vertices = Unbound
  /\ active = {} /\ throat_c2c = Unbound

\* No Controller is in use.
NoOp == [op |-> "none", ref |-> 0, obj |-> 0, arg |-> 0, before |-> <<>>,
         raised |-> FALSE]
IdleCtrl ==
  /\ cinstance = 0 /\ cmade = 0 /\ ccalls = 0 /\ crefs = {}
  /\ cdict = <<>> /\ ndicts = 0 /\ pdict = <<>> /\ cleared = <<>>
  /\ osim = <<>> /\ marks = {} /\ cops = 0 /\ last = NoOp

\* No throat's image is being analysed.
IdleFacet ==
  /\ fpc = "idle" /\ int_pts = {} /\ r_sq = 0 /\ eroded = {}
  /\ regions = 0 /\ area_i = 0 /\ offset_verts = {}

\* run is not called.
IdleRun ==
  /\ rpc = "idle" /\ rsolve = <<>> /\ rtol = 0 /\ rstack = <<>>
  /\ rcompared = <<>> /\ rmet = <<>> /\ rvalue = <<>> /\ rresult = <<>>

\* No physics is constructed.
IdlePhys ==
  /\ ppc = "idle" /\ pphase = <<>> /\ pgeometry = <<>> /\ pproject = {}
  /\ plabels = {} /\ plocations = {} /\ perror = FALSE

\* _get_fibre_image is entered: any image size, any fibre radius.
InitImage ==
  /\ pc = "alloc"
  /\ \E s \in Shapes : lx = s[1] /\ ly = s[2] /\ lz = s[3]
  /\ fibre_rad \in 0..MaxRad
  /\ alloc_fail = 0
  /\ pore_space = Unbound /\ fibre_space = Unbound /\ dt = Unbound
  /\ chunk_len = 0 /\ cx = 0 /\ cy = 0 /\ cz = 0
  /\ ci = 0 /\ cj = 0 /\ ck = 0
  /\ npts = 0 /\ pt = <<>>
  /\ fibre_image = Unbound /\ dt_image = Unbound

NextImage ==
  \/ TryAlloc
  \/ \E k \in 1..3 : AllocFail(k)
  \/ RasterPoint
  \/ RasterEnd
  \/ Chunk
  \/ Finalise

StartImage == InitImage /\ IdleHull /\ IdleGeo /\ IdleCtrl /\ IdleFacet /\ IdleRun /\ IdlePhys
SpecImage == StartImage /\ [][NextImage]_vars

\* The grids with at most MaxPts fibre seeds.
Seeded(a, b, c) ==
  {ps \in [Vox(a, b, c) -> {0, 1}] :
     Cardinality({v \in Vox(a, b, c) : ps[v] = 0}) <= MaxPts}

\* The chunk loop is entered with the three arrays allocated, any rasterized
\* pore_space and any chunk length.
InitChunks ==
  /\ pc = "chunks"
  /\ \E s \in Shapes : lx = s[1] /\ ly = s[2] /\ lz = s[3]
  /\ fibre_rad \in 0..MaxRad
  /\ alloc_fail = 0
  /\ pore_space \in Seeded(lx, ly, lz)
  /\ fibre_space = [v \in Vox(lx, ly, lz) |-> 0]
  /\ dt = [v \in Vox(lx, ly, lz) |-> DtZero]
  /\ chunk_len \in 1..MaxChunk
  /\ cx = ChunkCount(lx, chunk_len)
  /\ cy = ChunkCount(ly, chunk_len)
  /\ cz = ChunkCount(lz, chunk_len)
  /\ ci = 0 /\ cj = 0 /\ ck = 0
  /\ npts = 0 /\ pt = <<>>
  /\ fibre_image = Unbound /\ dt_image = Unbound

NextChunks == Chunk \/ Finalise

StartChunks == InitChunks /\ IdleHull /\ IdleGeo /\ IdleCtrl /\ IdleFacet /\ IdleRun /\ IdlePhys
SpecChunks == StartChunks /\ [][NextChunks]_vars

\* ------------------------------------------------------------- inhull
\* A pore's hull vertices, in voxel units: the corners of the box lo..hi,
\* and as many more vertices on its faces as make qhull return nf
\* triangles (12 for the bare box).
Corners(h) == {<<x, y, z>> : x \in {h.lo[1], h.hi[1]}, y \in {h.lo[2], h.hi[2]},
                            z \in {h.lo[3], h.hi[3]}}
\* The range xr, yr, zr of the bounding box (lines 364-369).
Range(h) == <<h.hi[1] - h.lo[1] + 1, h.hi[2] - h.lo[2] + 1,
              h.hi[3] - h.lo[3] + 1>>
\* sptl.ConvexHull raises QhullError on fewer than 4 points and on coplanar
\* points (line 378).
HullFails(h) ==
  \/ Cardinality(Corners(h)) < 4
  \/ \E k \in 1..3 : h.lo[k] = h.hi[k]

Dot(a, b) == a[1]*b[1] + a[2]*b[2] + a[3]*b[3]
Minus(a, b) == <<a[1]-b[1], a[2]-b[2], a[3]-b[3]>>
Neg(a) == <<-a[1], -a[2], -a[3]>>
Cross(a, b) == <<a[2]*b[3] - a[3]*b[2], a[3]*b[1] - a[1]*b[3],
                 a[1]*b[2] - a[2]*b[1]>>

\* hull.simplices of the box with edges d, after xyz -= origin: two
\* triangles per face.
Quad(a, b, c, e) == <<<<a, b, c>>, <<a, c, e>>>>
BoxTri(d) ==
  Quad(<<0, 0, 0>>, <<0, d[2], 0>>, <<0, d[2], d[3]>>, <<0, 0, d[3]>>)
  \o Quad(<<d[1], 0, 0>>, <<d[1], d[2], 0>>, <<d[1], d[2], d[3]>>,
          <<d[1], 0, d[3]>>)
  \o Quad(<<0, 0, 0>>, <<d[1], 0, 0>>, <<d[1], 0, d[3]>>, <<0, 0, d[3]>>)
  \o Quad(<<0, d[2], 0>>, <<d[1], d[2], 0>>, <<d[1], d[2], d[3]>>,
          <<0, d[2], d[3]>>)
  \o Quad(<<0, 0, 0>>, <<d[1], 0, 0>>, <<d[1], d[2], 0>>, <<0, d[2], 0>>)
  \o Quad(<<0, 0, d[3]>>, <<d[1], 0, d[3]>>, <<d[1], d[2], d[3]>>,
          <<0, d[2], d[3]>>)
\* The normal of a simplex (lines 382-384), made to point inwards
\* (lines 389-395): the centre of the box's vertices is d/2.
Normal(t) == Cross(Minus(t[1], t[2]), Minus(t[1], t[3]))
InwardNormal(d, t) ==
  IF Dot(Minus(d, <<2*t[1][1], 2*t[1][2], 2*t[1][3]>>), Normal(t)) < 0
  THEN Neg(Normal(t))
  ELSE Normal(t)
\* nrmls and a (lines 391-395) of the twelve triangles of the box.
Planes(d) ==
  LET tri == BoxTri(d)
  IN [j \in 1..12 |-> [n |-> InwardNormal(d, tri[j]), a |-> tri[j][1]]]
\* xN - aN >= 0 - tol (lines 397-403).  The coordinates are integers, so a
\* failing voxel fails by at least 1/|normal|, far more than tol = 1e-7.
PlaneTest(pl, v) == Dot(pl.n, v) - Dot(pl.n, pl.a) >= 0
\* Plane k of a hull is planes[((k - 1) % 12) + 1]: the triangles beyond the
\* twelfth lie in the same six faces.

\* dtype=np.uint8 (line 375): dom += 1 wraps at 256.
UInt8 == 256
\* The counter of a voxel after the loop over the nf planes (lines 398-403):
\* pass[j] tells whether the voxel passes the test of triangle j.
PlaneCount(planes, nf, v) ==
  LET counts == {Cardinality({k \in 1..nf : pass[((k - 1) % 12) + 1]}) :
                   pass \in {[j \in 1..12 |-> PlaneTest(planes[j], v)]}}
  IN (CHOOSE c \in counts : TRUE) % UInt8
\* dom[dom < len(a)] = 0, then dom[dom == len(a)] = 1 (lines 404-405).
Threshold(c, nf) ==
  LET first == IF c < nf THEN 0 ELSE c
  IN IF first = nf THEN 1 ELSE first
\* dom when inhull has classified its bounding box.
Classify(h) ==
  CHOOSE c \in {[v \in Vox(Range(h)[1], Range(h)[2], Range(h)[3]) |->
                   Threshold(PlaneCount(planes, h.nf, v), h.nf)] :
                planes \in {Planes(Minus(h.hi, h.lo))}} : TRUE

\* The indices a slice start:stop names on an axis of length len: negative
\* bounds count from the end, and both are clipped to the axis.
PyBound(i, len) == IF i < 0 THEN Max2(i + len, 0) ELSE Min2(i, len)
PySlice(start, stop, len) == PyBound(start, len)..(PyBound(stop, len) - 1)

\* temp_arr[si[0]:si[0]+ds[0], ...] = dom (line 408): the voxels the slice
\* names on each axis.  The assignment raises ValueError unless the slice
\* has the shape of dom.
SliceOf(h, k, len) == PySlice(h.lo[k], h.lo[k] + Range(h)[k], len)
SliceFits(h) ==
  /\ Cardinality(SliceOf(h, 1, lx)) = Range(h)[1]
  /\ Cardinality(SliceOf(h, 2, ly)) = Range(h)[2]
  /\ Cardinality(SliceOf(h, 3, lz)) = Range(h)[3]
\* The element of dom that lands on voxel v of the label grid.
DomIndex(h, v) == <<v[1] - SetMin(SliceOf(h, 1, lx)),
                    v[2] - SetMin(SliceOf(h, 2, ly)),
                    v[3] - SetMin(SliceOf(h, 3, lz))>>
InSlice(h, v) ==
  /\ v[1] \in SliceOf(h, 1, lx)
  /\ v[2] \in SliceOf(h, 2, ly)
  /\ v[3] \in SliceOf(h, 3, lz)
\* self._hull_image[temp_arr] = pore (lines 407-409).
Merge(img, h, dm, p) ==
  [v \in DOMAIN img |->
     IF InSlice(h, v) /\ dm[DomIndex(h, v)] # 0 THEN p ELSE img[v]]

\* The pores whose hull holds voxel v, after pore p: v is held when the
\* element of dom at v's own offset from the bounding box is set.
Held(h, dm, v) ==
  /\ Minus(v, h.lo) \in DOMAIN dm
  /\ dm[Minus(v, h.lo)] = 1

\* The hulls a pore may have in a grid: on the x axis any interval of the
\* coordinate range, on the other two the whole axis or a flat hull.
Intervals(len) ==
  {i \in ((-len)..len) \X ((-len)..len) : i[1] <= i[2] /\ i[2] - i[1] <= 2}
Spans(len) == {<<0, len - 1>>, <<0, 0>>}
FacetCounts == {12, 256}
Hulls ==
  {[lo |-> <<i[1], j[1], k[1]>>, hi |-> <<i[2], j[2], k[2]>>, nf |-> n] :
     i \in Intervals(lx), j \in Spans(ly), k \in Spans(lz), n \in FacetCounts}

\* ----------------------------------------------------- in_hull_volume
\* The pore after p in Ps, or -1 after the last.
NextPore(p) ==
  IF {q \in Ps : q > p} = {} THEN -1 ELSE SetMin({q \in Ps : q > p})

\* The label grid is created, all -1 (lines 427-428).
StartHulls ==
  /\ hpc = "start"
  /\ hull_image' = [v \in DOMAIN fibre_image |-> -1]
  /\ classified' = [v \in DOMAIN fibre_image |-> {}]
  /\ IF Ps = {}
     THEN hpc' = "count" /\ pore' = pore
     ELSE hpc' = "pores" /\ pore' = SetMin(Ps)
  /\ UNCHANGED notHull
  /\ UNCHANGED <<fibre_image, dt_image, Np, Ps, verts, dom, failed, pore_voxels,
                 fibre_voxels, pore_volume, pore_indiameter, pore_incenter>>

\* One turn of the loop over Ps (lines 429-434): inhull (lines 362-410) on
\* the pore's vertices.  Neither inhull nor the loop catches an exception.
Inhull ==
  /\ hpc = "pores"
  /\ \E h \in Hulls :
       /\ verts' = h
       /\ dom' = IF HullFails(h)
                 THEN [v \in Vox(Range(h)[1], Range(h)[2], Range(h)[3]) |-> 0]
                 ELSE Classify(h)
       /\ IF HullFails(h) \/ ~SliceFits(h)
          THEN /\ hpc' = "raised"
               /\ failed' = failed \cup {pore}
               /\ UNCHANGED <<hull_image, classified, pore>>
          ELSE /\ hull_image' = Merge(hull_image, h, dom', pore)
               /\ classified' =
                    [v \in DOMAIN classified |->
                       IF Held(h, dom', v) THEN classified[v] \cup {pore}
                       ELSE classified[v]]
               /\ failed' = failed
               /\ IF NextPore(pore) < 0
                  THEN hpc' = "count" /\ pore' = pore
                  ELSE hpc' = hpc /\ pore' = NextPore(pore)
  /\ UNCHANGED notHull
  /\ UNCHANGED <<fibre_image, dt_image, Np, Ps, pore_voxels, fibre_voxels,
                 pore_volume, pore_indiameter, pore_incenter>>

\* The length of a voxel, in the unit of the coordinates (line 60).
VoxLen == 1

\* itemfreq of a label grid, without the labels below 0 (lines 450-455):
\* the count of label p.
Freq(img, p) == Cardinality({v \in DOMAIN img : img[v] = p})
\* pore_space and fibre_space of _process_pore_voxels (lines 446-449).
MaskedLabels(img, fib, flag) ==
  [v \in DOMAIN img |-> IF fib[v] = flag THEN -1 ELSE img[v]]
\* The count of _process_pore_voxels with the mask of line 448 left out.
PoreVoxUnmasked(img, fib, n) == [p \in 0..(n-1) |-> Freq(img, p)]
PoreVox(img, fib, n) == [p \in 0..(n-1) |-> Freq(MaskedLabels(img, fib, 0), p)]
FibreVox(img, fib, n) == [p \in 0..(n-1) |-> Freq(MaskedLabels(img, fib, 1), p)]

\* _process_pore_voxels and the volume (lines 435-459).  The locals of
\* inhull are gone.
ProcessPoreVoxels ==
  /\ hpc = "count"
  /\ pore_voxels' = PoreVox(hull_image, fibre_image, Np)
  /\ fibre_voxels' = FibreVox(hull_image, fibre_image, Np)
  /\ pore_volume' = [p \in 0..(Np-1) |->
                       pore_voxels'[p] * VoxLen * VoxLen * VoxLen]
  /\ verts' = NoHull /\ dom' = Unbound
  /\ hpc' = "indiam"
  /\ UNCHANGED notHull
  /\ UNCHANGED <<fibre_image, dt_image, Np, Ps, pore, hull_image, classified,
                 failed, pore_indiameter, pore_incenter>>

\* ------------------------------------------- _indiameter_from_fibres
\* The order of two distance-image values of one image: the key of
\* sqrt(d2) - r, 0 for a value that is 0.
DtKey(x) == IF x[1] <= Sq(x[2]) THEN 0 ELSE x[1]
\* dt_pore = self._dt_image*(self._hull_image == pore) (line 153).
DtPore(dti, img, p) == [v \in DOMAIN dti |-> IF img[v] = p THEN dti[v] ELSE DtZero]
\* dt_pore.max() (line 154).
DtMax(dp) == CHOOSE x \in {dp[v] : v \in DOMAIN dp} :
               \A v \in DOMAIN dp : DtKey(dp[v]) <= DtKey(x)
\* The place of a voxel in the flattened array.
Flat(v) == (v[1] * ly + v[2]) * lz + v[3]
\* np.argmax(dt_pore) (line 155): the first voxel holding the maximum.
ArgMax(dp) == CHOOSE v \in DOMAIN dp :
                /\ DtKey(dp[v]) = DtKey(DtMax(dp))
                /\ \A w \in DOMAIN dp :
                     DtKey(dp[w]) = DtKey(DtMax(dp)) => Flat(v) <= Flat(w)
\* k times a distance-image value: <<d2, r, k>> is k * (sqrt(d2) - r).
Times(k, x) == <<x[1], x[2], k>>
LenZero(t) == t[3] = 0 \/ t[1] <= Sq(t[2])

\* The loop over hull_pores (lines 151-158), labels in np.unique's
\* ascending order.  indiam[pore] and incen[pore] are Python indexings: the
\* label -1 of the unassigned voxels names the last pore.
RECURSIVE IndiamLoop(_, _, _, _)
IndiamLoop(labels, dti, img, acc) ==
  IF labels = {} THEN acc
  ELSE LET p == SetMin(labels)
           dp == DtPore(dti, img, p)
       IN IndiamLoop(labels \ {p}, dti, img,
            [acc EXCEPT ![PyIndex(p, Np)] =
               [indiam |-> Times(2, DtMax(dp)), incen |-> ArgMax(dp)]])
\* indiam *= vox_len, incen *= vox_len (lines 159-160).
ScaleLen(t) == <<t[1], t[2], t[3] * VoxLen>>
ScalePos(v) == <<v[1] * VoxLen, v[2] * VoxLen, v[3] * VoxLen>>
HullPores(img) == {img[v] : v \in DOMAIN img}
IndiamResult(dti, img) ==
  IndiamLoop(HullPores(img), dti, img,
             [p \in 0..(Np-1) |-> [indiam |-> Times(0, DtZero),
                                   incen |-> <<0, 0, 0>>]])

\* _indiameter_from_fibres (lines 136-161) and the assignment of its result
\* (lines 77-78).
IndiameterFromFibres ==
  /\ hpc = "indiam"
  /\ pore_indiameter' =
       [p \in 0..(Np-1) |-> ScaleLen(IndiamResult(dt_image, hull_image)[p].indiam)]
  /\ pore_incenter' =
       [p \in 0..(Np-1) |-> ScalePos(IndiamResult(dt_image, hull_image)[p].incen)]
  /\ hpc' = "done"
  /\ UNCHANGED notHull
  /\ UNCHANGED <<fibre_image, dt_image, Np, Ps, pore, verts, dom, hull_image,
                 classified, failed, pore_voxels, fibre_voxels, pore_volume>>

\* The largest geometry.
MaxNp == 2
\* The most fibre seeds of the image a geometry is assembled on.
MaxSeeds == 1
\* The grids that can hold a hull.
HullShapes ==
  {s \in (2..MaxL) \X (2..MaxL) \X (2..MaxL) : s[1]*s[2]*s[3] <= 4 * MaxL}

\* The state _get_fibre_image leaves when no allocation fails, for the
\* rasterized grid ps.
ImageOf(ps, rad, a, b, c) ==
  /\ pc = "done"
  /\ lx = a /\ ly = b /\ lz = c
  /\ fibre_rad = rad
  /\ alloc_fail = 0
  /\ pore_space = ps
  /\ fibre_space = ChunkFibre([v \in Vox(a, b, c) |-> 0], ps, <<0, 0, 0>>,
                              <<a, b, c>>, rad)
  /\ dt = ClampDt(ChunkDt([v \in Vox(a, b, c) |-> DtZero], ps, <<0, 0, 0>>,
                          <<a, b, c>>, rad))
  /\ chunk_len = Max2(a, Max2(b, c))
  /\ cx = 1 /\ cy = 1 /\ cz = 1
  /\ ci = 0 /\ cj = 0 /\ ck = 0
  /\ npts = Cardinality({v \in Vox(a, b, c) : ps[v] = 0})
  /\ pt = <<>>
  /\ fibre_image = fibre_space
  /\ dt_image = dt

\* in_hull_volume has its fibre image (line 426): any geometry, any internal
\* pores, any image.
InitHull ==
  /\ \E s \in HullShapes :
       \E ps \in [Vox(s[1], s[2], s[3]) -> {0, 1}] :
         /\ Cardinality({v \in Vox(s[1], s[2], s[3]) : ps[v] = 0}) <= MaxSeeds
         /\ \E rad \in 0..MaxRad : ImageOf(ps, rad, s[1], s[2], s[3])
  /\ hpc = "start"
  /\ Np \in 1..MaxNp
  /\ Ps \in SUBSET (0..(Np-1))
  /\ pore = 0
  /\ verts = NoHull /\ dom = Unbound
  /\ hull_image = Unbound /\ classified = Unbound /\ failed = {}
  /\ pore_voxels = Unbound /\ fibre_voxels = Unbound /\ pore_volume = Unbound
  /\ pore_indiameter = Unbound /\ pore_incenter = Unbound

StartHull == InitHull /\ IdleGeo /\ IdleCtrl /\ IdleFacet /\ IdleRun /\ IdlePhys

NextHull ==
  \/ StartHulls
  \/ Inhull
  \/ ProcessPoreVoxels
  \/ IndiameterFromFibres

SpecHull == StartHull /\ [][NextHull]_vars

\* _process_pore_voxels is entered (line 435) on a row of voxels: any
\* labels from -1 to Np - 1 in the label grid, the fibre image of any
\* rasterized row.
InitCount ==
  /\ \E a \in 1..MaxL :
       /\ \E ps \in Seeded(a, 1, 1) :
            \E rad \in 0..MaxRad : ImageOf(ps, rad, a, 1, 1)
       /\ Np \in 1..MaxNp
       /\ hull_image \in [Vox(a, 1, 1) -> (-1)..(Np - 1)]
  /\ hpc = "count"
  /\ Ps = {hull_image[v] : v \in DOMAIN hull_image} \ {-1}
  /\ pore = 0
  /\ classified = [v \in DOMAIN hull_image |->
                     IF hull_image[v] = -1 THEN {} ELSE {hull_image[v]}]
  /\ verts = NoHull /\ dom = Unbound /\ failed = {}
  /\ pore_voxels = Unbound /\ fibre_voxels = Unbound /\ pore_volume = Unbound
  /\ pore_indiameter = Unbound /\ pore_incenter = Unbound

StartCount == InitCount /\ IdleGeo /\ IdleCtrl /\ IdleFacet /\ IdleRun /\ IdlePhys
NextCount == ProcessPoreVoxels
SpecCount == StartCount /\ [][NextCount]_vars

\* ------------------------------------------------------ _throat_props
\* The facets are rectangles in the plane z = 0 with a corner at the origin
\* and sides sx, sy along the axes: the normal is the z axis, so no
\* rotation is made (lines 213-217) and the translation is zero (line 230).
\* A length q is the fraction <<num, den>>; an equivalent diameter
\* sqrt(4 * n / pi) * num / den is <<n, num, den>>.

\* res (line 204).
res == 200
\* max_factor (line 235).
MaxFactor(s) == Max2(s[1], s[2])
\* r <= res/2 (line 240), with r = f*offset and f = res/max_factor
\* (lines 236-238).
Proceeds(s, off) == 2 * (res * off) <= res * MaxFactor(s)
\* np.around(a / b): to the nearest integer, a half to the even one.
Around(a, b) ==
  LET q == a \div b
      m == a % b
  IN IF 2 * m < b THEN q
     ELSE IF 2 * m > b THEN q + 1
     ELSE IF q % 2 = 0 THEN q ELSE q + 1
\* The pixels the filled facet spans along a side s (lines 241-263): the
\* corners are rounded to the pixels 0 and around(f*s) of img.
Span(s, mf) == Around(res * s, mf) + 1
\* The distance transform of the padded, filled rectangle is, along each
\* axis, the distance to the nearer edge; a pixel survives the erosion when
\* the distance is > r (lines 267-269).  The surviving pixels of an axis of
\* w pixels, in the indices of img_pad:
Survive(w, mf, off) == {i \in 1..w : Min2(i, w + 1 - i) * mf > res * off}
\* regionprops of the cropped label image (line 276): its pixels of value
\* 1 are one region, whatever their connectivity.
Regions(a, b) == IF a * b > 0 THEN 1 ELSE 0
\* props.perimeter of an a x b rectangle of pixels (skimage: the border
\* pixels, each weighted by its neighbourhood).
Perimeter(a, b) ==
  IF a = 0 \/ b = 0 THEN 0
  ELSE IF Min2(a, b) = 1 THEN Max2(Max2(a, b) - 2, 0)
  ELSE 2 * a + 2 * b - 4
\* dt.max() of the eroded rectangle (lines 292, 336).
InRadius(a, b) == Min2(CeilDiv(a, 2), CeilDiv(b, 2))
\* The offset vertices (lines 303-308): the pixel of the region nearest to
\* each corner of the facet, without repetition, in the indices of img.
OffsetVerts(A, B) ==
  LET c == <<<<SetMin(A) - 1, SetMin(B) - 1>>, <<SetMax(A) - 1, SetMin(B) - 1>>,
             <<SetMax(A) - 1, SetMax(B) - 1>>, <<SetMin(A) - 1, SetMax(B) - 1>>>>
  IN SelectSeq(c, LAMBDA x : TRUE)
NoRepeat(c) ==
  LET keep == {i \in 1..Len(c) : \A j \in 1..(i-1) : c[j] # c[i]}
      F[i \in 0..Len(c)] ==
        IF i = 0 THEN <<>>
        ELSE IF i \in keep THEN Append(F[i-1], c[i]) ELSE F[i-1]
  IN F[Len(c)]

RatZero == <<0, 1>>
DiamNone == <<0, 0, 1>>
PosZero == <<0, 0, 1>>

\* What one turn of the loop leaves for a throat with sides s (lines
\* 210-345): the block under r <= res/2 is skipped, or it leaves the zeros,
\* or it stores the extraction.
ZeroResult ==
  [area |-> RatZero, perimeter |-> RatZero, diameter |-> DiamNone,
   inradius |-> RatZero, centroid |-> PosZero, incentre |-> PosZero,
   verts |-> <<>>]
\* The block under r <= res/2 with the else of lines 342-345 left out: the
\* area, perimeter and diameter read from the region (lines 281-283) stay.
ExtractKeepsRegion(A, B, mf) ==
  LET a == Cardinality(A)
      b == Cardinality(B)
      read == [ZeroResult EXCEPT !.area = <<a * b, 1>>,
                                 !.perimeter = <<Perimeter(a, b), 1>>,
                                 !.diameter = <<a * b, 1, 1>>]
  IN IF ~(a * b >= 3) THEN ZeroResult
     ELSE IF Len(NoRepeat(OffsetVerts(A, B))) >= 3
          THEN [read EXCEPT !.verts = NoRepeat(OffsetVerts(A, B))]
          ELSE read
\* The block under r <= res/2 for the surviving pixels A x B (lines
\* 270-345): the centroid in the indices of cropped, the incentre in those
\* of the padded image.
Extract(A, B, mf) ==
  LET a == Cardinality(A)
      b == Cardinality(B)
  IN IF ~(a * b >= 3) THEN ZeroResult
     ELSE IF Regions(a, b) # 1 THEN ZeroResult
     ELSE IF Len(NoRepeat(OffsetVerts(A, B))) >= 3
          THEN [area |-> <<a * b * mf * mf, res * res>>,
                perimeter |-> <<Perimeter(a, b) * mf, res>>,
                diameter |-> <<a * b, mf, res>>,
                inradius |-> <<InRadius(a, b) * mf, res>>,
                centroid |-> <<(SetMin(A) + SetMax(A) - 2) * mf,
                               (SetMin(B) + SetMax(B) - 2) * mf, 2 * res>>,
                incentre |-> <<(SetMin(A) + InRadius(a, b) - 1) * mf,
                               (SetMin(B) + InRadius(a, b) - 1) * mf, res>>,
                verts |-> NoRepeat(OffsetVerts(A, B))]
          ELSE ZeroResult
ThroatResult(s, off) ==
  IF ~Proceeds(s, off) THEN ZeroResult
  ELSE CHOOSE out \in
         {Extract(A, B, MaxFactor(s)) :
            A \in {Survive(Span(s[1], MaxFactor(s)), MaxFactor(s), off)},
            B \in {Survive(Span(s[2], MaxFactor(s)), MaxFactor(s), off)}} : TRUE

\* The most throats of a geometry.
MaxNt == 2
\* The longest side of a facet.
MaxSide == 4
\* The largest fibre radius, in the unit of the vertices.
MaxOffset == 2

\* The facets of a geometry, by their sides.
Facets == (1..MaxSide) \X (1..MaxSide)
\* What the loop leaves for each facet and offset, as a table computed once.
ResultOf ==
  CHOOSE f \in {[s \in Facets, off \in 0..MaxOffset |-> ThroatResult(s, off)]} :
    f = f

\* ----------------------------------------------------------- __init__
\* The statements of lines 73-86 with the trimming moved to the end.
StagesTrimLast ==
  <<"in_hull_volume", "throat.normal", "throat.centroid", "pore.centroid",
    "pore.indiameter", "_throat_props", "throat.volume", "throat.length",
    "throat.c2c", "models", "regenerate_models", "trim_occluded_throats">>
\* The statements of lines 73-86 with throat.c2c ahead of the trimming.
StagesC2cBeforeTrim ==
  <<"in_hull_volume", "throat.normal", "throat.centroid", "pore.centroid",
    "pore.indiameter", "_throat_props", "throat.volume", "throat.length",
    "throat.c2c", "trim_occluded_throats", "models", "regenerate_models">>
\* The statements of __init__ after the vertices are stored (lines 73-86).
InitStages ==
  <<"in_hull_volume", "throat.normal", "throat.centroid", "pore.centroid",
    "pore.indiameter", "_throat_props", "trim_occluded_throats",
    "throat.volume", "throat.length", "throat.c2c", "models",
    "regenerate_models">>
Stage == IF gk \in 1..Len(InitStages) THEN InitStages[gk] ELSE "none"
\* The statement after the one at gk has run.
Advance ==
  /\ log' = Append(log, Stage)
  /\ gk' = gk + 1
  /\ gpc' = IF gk + 1 > Len(InitStages) THEN "done" ELSE "init"

Throats == 0..(Nt - 1)

\* in_hull_volume (line 73) returns, or raises what inhull raised.
InHullVolume ==
  /\ gpc = "init" /\ Stage = "in_hull_volume"
  /\ \/ Advance
     \/ gpc' = "raised" /\ UNCHANGED <<gk, log>>
  /\ UNCHANGED notGeo
  /\ UNCHANGED <<Nt, throat_vertices, offset, ti, entered, throat_area,
                 throat_perimeter, throat_diameter, throat_indiameter,
                 throat_centroid, throat_incentre, throat_offset_vertices,
                 active, throat_c2c>>

\* A statement that stores a field no later statement of the model reads
\* (lines 74, 76-78, 81-82, 85).
Assign ==
  /\ gpc = "init"
  /\ Stage \in {"throat.normal", "pore.centroid", "pore.indiameter",
                "throat.volume", "throat.length", "models"}
  /\ Advance
  /\ UNCHANGED notGeo
  /\ UNCHANGED <<Nt, throat_vertices, offset, ti, entered, throat_area,
                 throat_perimeter, throat_diameter, throat_indiameter,
                 throat_centroid, throat_incentre, throat_offset_vertices,
                 active, throat_c2c>>

\* self['throat.centroid'] = self._centroids(verts=t_coords) (line 75): the
\* mean of the four corners.
ThroatCentroid ==
  /\ gpc = "init" /\ Stage = "throat.centroid"
  /\ throat_centroid' =
       [t \in Throats |-> <<throat_vertices[t][1], throat_vertices[t][2], 2>>]
  /\ Advance
  /\ UNCHANGED notGeo
  /\ UNCHANGED <<Nt, throat_vertices, offset, ti, entered, throat_area,
                 throat_perimeter, throat_diameter, throat_indiameter,
                 throat_incentre, throat_offset_vertices, active, throat_c2c>>

\* _throat_props is entered (lines 189-207): the arrays of zeros.
ThroatPropsStart ==
  /\ gpc = "init" /\ Stage = "_throat_props"
  /\ gpc' = "props"
  /\ ti' = 0
  /\ throat_area' = [t \in Throats |-> RatZero]
  /\ throat_perimeter' = [t \in Throats |-> RatZero]
  /\ throat_diameter' = [t \in Throats |-> DiamNone]
  /\ throat_indiameter' = [t \in Throats |-> RatZero]
  /\ throat_centroid' = [t \in Throats |-> PosZero]
  /\ throat_incentre' = [t \in Throats |-> PosZero]
  /\ throat_offset_vertices' = [t \in Throats |-> <<>>]
  /\ UNCHANGED notGeo
  /\ UNCHANGED <<gk, log, Nt, throat_vertices, offset, entered, active,
                 throat_c2c>>

\* One turn of the loop over the throats (lines 209-345).
ThroatProp ==
  /\ gpc = "props" /\ ti < Nt
  /\ \E out \in {ResultOf[throat_vertices[ti], offset]} :
        /\ throat_area' = [throat_area EXCEPT ![ti] = out.area]
        /\ throat_perimeter' = [throat_perimeter EXCEPT ![ti] = out.perimeter]
        /\ throat_diameter' = [throat_diameter EXCEPT ![ti] = out.diameter]
        /\ throat_indiameter' = [throat_indiameter EXCEPT ![ti] = out.inradius]
        /\ throat_centroid' = [throat_centroid EXCEPT ![ti] = out.centroid]
        /\ throat_incentre' = [throat_incentre EXCEPT ![ti] = out.incentre]
        /\ throat_offset_vertices' =
             [throat_offset_vertices EXCEPT ![ti] = out.verts]
  /\ entered' = IF Proceeds(throat_vertices[ti], offset)
                THEN entered \cup {ti} ELSE entered
  /\ ti' = ti + 1
  /\ UNCHANGED notGeo
  /\ UNCHANGED <<gk, gpc, log, Nt, throat_vertices, offset, active, throat_c2c>>

\* The loop is over: the arrays are stored, the in-diameter as twice the
\* in-radius (lines 347-353).
ThroatPropsEnd ==
  /\ gpc = "props" /\ ti = Nt
  /\ throat_indiameter' =
       [t \in Throats |-> <<2 * throat_indiameter[t][1], throat_indiameter[t][2]>>]
  /\ Advance
  /\ UNCHANGED notGeo
  /\ UNCHANGED <<Nt, throat_vertices, offset, ti, entered, throat_area,
                 throat_perimeter, throat_diameter, throat_centroid,
                 throat_incentre, throat_offset_vertices, active, throat_c2c>>

\* topotools.trim_occluded_throats (line 80): the throats of area 0 leave
\* the topology.
Occluded(area) == {t \in DOMAIN area : area[t][1] = 0}
TrimOccludedThroats ==
  /\ gpc = "init" /\ Stage = "trim_occluded_throats"
  /\ active' = active \ Occluded(throat_area)
  /\ Advance
  /\ UNCHANGED notGeo
  /\ UNCHANGED <<Nt, throat_vertices, offset, ti, entered, throat_area,
                 throat_perimeter, throat_diameter, throat_indiameter,
                 throat_centroid, throat_incentre, throat_offset_vertices,
                 throat_c2c>>

\* self['throat.c2c'] = self._throat_c2c() (lines 83, 163-182): one value
\* for each throat of the topology, measured to the throat's centroid.
ThroatC2c ==
  /\ gpc = "init" /\ Stage = "throat.c2c"
  /\ throat_c2c' = [t \in active |-> throat_centroid[t]]
  /\ Advance
  /\ UNCHANGED notGeo
  /\ UNCHANGED <<Nt, throat_vertices, offset, ti, entered, throat_area,
                 throat_perimeter, throat_diameter, throat_indiameter,
                 throat_centroid, throat_incentre, throat_offset_vertices,
                 active>>

\* self.regenerate_models() (line 86): the models of the recipe read the
\* throat geometry.
RegenerateModels ==
  /\ gpc = "init" /\ Stage = "regenerate_models"
  /\ Advance
  /\ UNCHANGED notGeo
  /\ UNCHANGED <<Nt, throat_vertices, offset, ti, entered, throat_area,
                 throat_perimeter, throat_diameter, throat_indiameter,
                 throat_centroid, throat_incentre, throat_offset_vertices,
                 active, throat_c2c>>

\* __init__ has stored the vertices (lines 54-69).
InitGeo ==
  /\ gk = 1 /\ gpc = "init" /\ log = <<>>
  /\ Nt \in 1..MaxNt
  /\ throat_vertices \in [Throats -> Facets]
  /\ offset \in 0..MaxOffset
  /\ ti = 0
  /\ entered = {}
  /\ throat_area = Unbound /\ throat_perimeter = Unbound
  /\ throat_diameter = Unbound /\ throat_indiameter = Unbound
  /\ throat_centroid = Unbound /\ throat_incentre = Unbound
  /\ throat_offset_vertices = Unbound
  /\ active = Throats
  /\ throat_c2c = Unbound

\* No image is being built.
IdleImage ==
  /\ pc = "idle"
  /\ lx = 0 /\ ly = 0 /\ lz = 0
  /\ fibre_rad = 0 /\ alloc_fail = 0
  /\ pore_space = Unbound /\ fibre_space = Unbound /\ dt = Unbound
  /\ chunk_len = 0 /\ cx = 0 /\ cy = 0 /\ cz = 0
  /\ ci = 0 /\ cj = 0 /\ ck = 0
  /\ npts = 0 /\ pt = <<>>
  /\ fibre_image = Unbound /\ dt_image = Unbound

StartGeo == InitGeo /\ IdleImage /\ IdleHull /\ IdleCtrl /\ IdleFacet /\ IdleRun /\ IdlePhys

NextGeo ==
  \/ InHullVolume
  \/ Assign
  \/ ThroatCentroid
  \/ ThroatPropsStart
  \/ ThroatProp
  \/ ThroatPropsEnd
  \/ TrimOccludedThroats
  \/ ThroatC2c
  \/ RegenerateModels

SpecGeo == StartGeo /\ [][NextGeo]_vars

\* ---------------------------------------------------------- Controller
\* The objects of a simulation are 1..MaxObj, each its own name.  The
\* Controller is a dict: its keys are kept in the order of insertion.  The
\* key <<"name", n>> holds the object named n; a key <<"pore", n>> or
\* <<"throat", n>> is the label 'pore.<n>' or 'throat.<n>' and holds an array.

\* The most objects of a simulation.
MaxObj == 2
\* The most registry operations of a run.
MaxOps == 3
\* The most calls Controller() of a run.
MaxCalls == 2

Objs == 1..MaxObj
\* 'pore.'+name and 'throat.'+name (lines 158-159).
Labels == {"pore", "throat"}
\* _geometries, _phases and _physics (lines 161-163).
Lists == {"_geometries", "_phases", "_physics"}
NameKey(n) == <<"name", n>>
\* The value under key k is an OpenPNM object, not an array.
IsObject(k) == k[1] = "name"

\* The values of an object's _sim: an empty dict of its own, a Controller,
\* or a plain dict made by clear().
Empty == <<"empty", 0>>
InCtrl(r) == <<"ctrl", r>>
InDict(d) == <<"dict", d>>

Has(keys, k) == \E i \in 1..Len(keys) : keys[i] = k
\* dict.update: a new key goes to the end, a known key keeps its place.
RECURSIVE DictUpdate(_, _)
DictUpdate(keys, more) ==
  IF more = <<>> THEN keys
  ELSE DictUpdate(IF Has(keys, Head(more)) THEN keys
                  ELSE Append(keys, Head(more)),
                  Tail(more))
\* del self[name] (line 167).
DictDel(keys, k) == SelectSeq(keys, LAMBDA x : x # k)
\* The place of the first key that holds an array, 0 when there is none:
\* `for item in self.keys()` stops there, since an array has no pop and
\* takes no attribute (AttributeError).
FirstArray(keys) ==
  IF \E i \in 1..Len(keys) : ~IsObject(keys[i])
  THEN SetMin({i \in 1..Len(keys) : ~IsObject(keys[i])})
  ELSE 0
\* The keys the loop handles before it ends or raises.
ReachedKeys(keys) ==
  IF FirstArray(keys) = 0 THEN keys ELSE SubSeq(keys, 1, FirstArray(keys) - 1)
Reached(keys) == {ReachedKeys(keys)[i][2] : i \in 1..Len(ReachedKeys(keys))}

\* The keys of object o itself: its labels, pore labels first.
LabelKeys ==
  [i \in 1..(2 * MaxObj) |->
     IF i <= MaxObj THEN <<"pore", i>> ELSE <<"throat", i - MaxObj>>]
OwnKeys(o) == SelectSeq(LabelKeys, LAMBDA k : <<o, k[1], k[2]>> \in marks)
\* The dict {obj.name : obj} of the objects S.
NamesOf(S) ==
  SelectSeq([i \in 1..MaxObj |-> NameKey(i)], LAMBDA k : k[2] \in S)

\* __new__ with the test of line 18 left out: every call makes an instance.
InstanceAlwaysNew(inst, made) == made + 1
\* The instance __new__ returns (lines 17-20).
Instance(inst, made) == IF inst = 0 THEN made + 1 ELSE inst

\* sim = Controller() (lines 17-25).
ControllerNew ==
  /\ ccalls < MaxCalls
  /\ \E r \in {Instance(cinstance, cmade)} :
       /\ cinstance' = r
       /\ cmade' = Max2(cmade, r)
       /\ cdict' = IF r > cmade THEN Append(cdict, <<>>) ELSE cdict
       /\ crefs' = crefs \cup {r}
       /\ last' = [NoOp EXCEPT !.op = "new", !.ref = r]
  /\ ccalls' = ccalls + 1
  /\ UNCHANGED <<ndicts, pdict, cleared, osim, marks, cops>>
  /\ UNCHANGED notCtrl

\* The setter of an object's simulation attribute, for the objects under
\* the keys items in turn: each object's _sim becomes the dict, and the
\* dict gets the object under its name.
SetterFill(keys, items) == DictUpdate(keys, items)

\* update(dict_) (lines 136-138) through the reference r, dict_ holding the
\* keys dk.
Update(r, dk, d) ==
  /\ cops < MaxOps
  /\ \E keys \in {DictUpdate(cdict[r], dk)} :
       /\ cdict' = [cdict EXCEPT ![r] = keys]
       /\ osim' = [o \in Objs |->
                     IF o \in Reached(keys) THEN InCtrl(r) ELSE osim[o]]
       /\ last' = [op |-> "update", ref |-> r, obj |-> 0, arg |-> d,
                   before |-> cdict[r], raised |-> FirstArray(keys) # 0]
  /\ cops' = cops + 1
  /\ UNCHANGED <<cinstance, cmade, ccalls, crefs, ndicts, pdict, cleared, marks>>
  /\ UNCHANGED notCtrl

\* clear() (lines 109-113) through the reference r.
Clear(r) ==
  /\ cops < MaxOps
  /\ ndicts' = ndicts + 1
  /\ pdict' = Append(pdict, SetterFill(<<>>, ReachedKeys(cdict[r])))
  /\ cleared' = Append(cleared, cdict[r])
  /\ osim' = [o \in Objs |->
                IF o \in Reached(cdict[r]) THEN InDict(ndicts + 1) ELSE osim[o]]
  /\ cdict' = IF FirstArray(cdict[r]) # 0 THEN cdict
              ELSE [cdict EXCEPT ![r] = <<>>]
  /\ last' = [op |-> "clear", ref |-> r, obj |-> 0, arg |-> ndicts + 1,
              before |-> cdict[r], raised |-> FirstArray(cdict[r]) # 0]
  /\ cops' = cops + 1
  /\ UNCHANGED <<cinstance, cmade, ccalls, crefs, marks>>
  /\ UNCHANGED notCtrl

\* A label or association m stays when purge_object(o) has handled the
\* items reached (lines 156-163).
PurgeKeeps(m, reached, o) ==
  ~(m[1] \in reached /\ m[3] = o /\ m[2] \in Labels \cup Lists)

\* purge_object(obj) (lines 155-167) through the reference r: self[name]
\* raises KeyError when the name is no key.
PurgeObject(r, o) ==
  /\ cops < MaxOps
  /\ marks' = {m \in marks : PurgeKeeps(m, Reached(cdict[r]), o)}
  /\ IF FirstArray(cdict[r]) # 0 \/ ~Has(cdict[r], NameKey(o))
     THEN UNCHANGED <<osim, cdict>>
     ELSE /\ osim' = [osim EXCEPT ![o] = Empty]
          /\ cdict' = [cdict EXCEPT ![r] = DictDel(cdict[r], NameKey(o))]
  /\ last' = [op |-> "purge", ref |-> r, obj |-> o, arg |-> 0,
              before |-> cdict[r],
              raised |-> (FirstArray(cdict[r]) # 0
                          \/ ~Has(cdict[r], NameKey(o)))]
  /\ cops' = cops + 1
  /\ UNCHANGED <<cinstance, cmade, ccalls, crefs, ndicts, pdict, cleared>>
  /\ UNCHANGED notCtrl

\* clone_object(obj) (lines 192-195) through the reference r: the copy is
\* returned, and super().update(obj) puts the items of obj, a dict, into
\* the Controller.
CloneObject(r, o) ==
  /\ cops < MaxOps
  /\ cdict' = [cdict EXCEPT ![r] = DictUpdate(cdict[r], OwnKeys(o))]
  /\ last' = [op |-> "clone", ref |-> r, obj |-> o, arg |-> 0,
              before |-> cdict[r], raised |-> FALSE]
  /\ cops' = cops + 1
  /\ UNCHANGED <<cinstance, cmade, ccalls, crefs, ndicts, pdict, cleared, osim,
                 marks>>
  /\ UNCHANGED notCtrl

\* The labels and associations objects can hold.
MarkUniverse == Objs \X (Labels \cup Lists) \X Objs
\* At the start the objects hold no label or association, or one.
MarkSets == {{}} \cup {{m} : m \in MarkUniverse}

\* No Controller has been made; the objects belong to no simulation.
InitCtrl ==
  /\ cinstance = 0 /\ cmade = 0 /\ ccalls = 0 /\ crefs = {}
  /\ cdict = <<>> /\ ndicts = 0 /\ pdict = <<>> /\ cleared = <<>>
  /\ osim = [o \in Objs |-> Empty]
  /\ marks \in MarkSets
  /\ cops = 0
  /\ last = NoOp

StartCtrl == InitCtrl /\ IdleImage /\ IdleHull /\ IdleGeo /\ IdleFacet /\ IdleRun /\ IdlePhys

NextCtrl ==
  \/ ControllerNew
  \/ \E r \in crefs : \E S \in (SUBSET Objs) \ {{}} : Update(r, NamesOf(S), 0)
  \/ \E r \in crefs : \E d \in 1..ndicts : Update(r, pdict[d], d)
  \/ \E r \in crefs : Clear(r)
  \/ \E r \in crefs : \E o \in Objs : PurgeObject(r, o)
  \/ \E r \in crefs : \E o \in Objs : CloneObject(r, o)

SpecCtrl == StartCtrl /\ [][NextCtrl]_vars

\* ------------------------------------- _throat_props: image analysis
\* The image analysis of one throat (lines 248-345) for a facet of any
\* shape, on images of a few pixels: the scaling to res pixels is left out,
\* the vertices are drawn already rounded to pixels (line 248).

\* The largest pixel index of img along its two axes.
MaxSpanX == 6
MaxSpanY == 3
\* The largest whole part of the square of r.
MaxRSq == 2

\* The pixels of img (lines 246-247) and of img_pad (lines 252-253), both
\* in the indices of img.
Img(pts) == (0..SetMax({p[1] : p \in pts})) \X (0..SetMax({p[2] : p \in pts}))
ImgPad(pts) ==
  ((-1)..(SetMax({p[1] : p \in pts}) + 1)) \X
  ((-1)..(SetMax({p[2] : p \in pts}) + 1))

\* convex_hull_image (line 263): the hull is taken of the midpoints of the
\* four edges of every pixel of value 1; a pixel is filled when its centre
\* is in the hull.  Coordinates are doubled to stay whole.
EdgeMidpoints(pts) ==
  {<<2*p[1] + d[1], 2*p[2] + d[2]>> :
     p \in pts, d \in {<<-1, 0>>, <<1, 0>>, <<0, -1>>, <<0, 1>>}}
Turn(a, b, c) == (b[1]-a[1]) * (c[2]-a[2]) - (b[2]-a[2]) * (c[1]-a[1])
\* The pairs of points with every point on the left of, or on, their line.
HullEdges(Q) ==
  {e \in {<<a, b>> : a \in Q, b \in Q} :
     e[1] # e[2] /\ \A q \in Q : Turn(e[1], e[2], q) >= 0}
InEdges(E, p) == \A e \in E : Turn(e[1], e[2], <<2*p[1], 2*p[2]>>) >= 0
ConvexHullImage(pts) ==
  CHOOSE H \in {{p \in {q : q \in Img(pts)} : InEdges(E, p)} :
                E \in {HullEdges(Q) : Q \in {EdgeMidpoints(pts)}}} : TRUE

\* ndimage.distance_transform_edt (line 267), squared: the distance from a
\* filled pixel to the nearest of the pixels Z of img_pad that are not
\* filled.
EdtSq2(Z, p) == SetMin({Sq(p[1]-z[1]) + Sq(p[2]-z[2]) : z \in Z})

\* eroded (lines 267-269): 1 where the distance is > r, 0 elsewhere.
ErodedOf(H, Z, rsq) == {p \in H : EdtSq2(Z, p) > rsq}
Eroded(pts, rsq) ==
  CHOOSE S \in {ErodedOf(H, {z \in {q : q \in ImgPad(pts)} : z \notin H}, rsq) :
                H \in {ConvexHullImage(pts)}} : TRUE

\* len(regionprops(cropped)) (line 276): cropped holds the values 0 and 1
\* and is read as a label image, so its pixels of value 1 are the one
\* region of label 1.
RegionProps(S) == IF S = {} THEN 0 ELSE 1

\* np.argmin over coords (lines 304-306): the pixel of the region nearest
\* to pt, the first in the order of coords (by row, then by column) among
\* equals.
NearestCoord(S, q) ==
  LET d(c) == Sq(c[1]-q[1]) + Sq(c[2]-q[2])
      first(c, e) == \/ d(c) < d(e)
                     \/ d(c) = d(e) /\ c[1] < e[1]
                     \/ d(c) = d(e) /\ c[1] = e[1] /\ c[2] <= e[2]
  IN CHOOSE c \in S : \A e \in S : first(c, e)

\* Lines 252-269: the padded image, its filled hull, the erosion.
Erode ==
  /\ fpc = "facet"
  /\ eroded' = Eroded(int_pts, r_sq)
  /\ fpc' = "eroded"
  /\ UNCHANGED notFacet
  /\ UNCHANGED <<int_pts, r_sq, regions, area_i, offset_verts>>

\* Lines 272-345: with 3 pixels or more left the regions are read; with
\* one region the area is read and the offset vertices are looked up; with
\* fewer than 3 different offset vertices the area is set back to 0.
Analyse ==
  /\ fpc = "eroded"
  /\ IF Cardinality(eroded) >= 3
     THEN /\ regions' = RegionProps(eroded)
          /\ IF regions' = 1
             THEN \E ov \in {{NearestCoord(eroded, q) : q \in int_pts}} :
                    IF Cardinality(ov) >= 3
                    THEN area_i' = Cardinality(eroded) /\ offset_verts' = ov
                    ELSE area_i' = 0 /\ offset_verts' = {}
             ELSE area_i' = 0 /\ offset_verts' = {}
     ELSE UNCHANGED <<regions, area_i, offset_verts>>
  /\ fpc' = "done"
  /\ UNCHANGED notFacet
  /\ UNCHANGED <<int_pts, r_sq, eroded>>

\* The facets: four vertices, translated so that the least coordinates
\* are 0 (lines 230-231), with a vertex at the origin.
FacetPoints ==
  {P \in {{<<0, 0>>, a, b, c} :
            a \in (0..MaxSpanX) \X (0..MaxSpanY),
            b \in (0..MaxSpanX) \X (0..MaxSpanY),
            c \in (0..MaxSpanX) \X (0..MaxSpanY)} : Cardinality(P) = 4}

\* The image analysis is entered (line 240): r is at most half the larger
\* span of the image.
InitFacet ==
  /\ fpc = "facet"
  /\ int_pts \in FacetPoints
  /\ r_sq \in 0..MaxRSq
  /\ 4 * r_sq <= Sq(Max2(SetMax({p[1] : p \in int_pts}),
                         SetMax({p[2] : p \in int_pts})))
  /\ eroded = {} /\ regions = 0 /\ area_i = 0 /\ offset_verts = {}

StartFacet == InitFacet /\ IdleImage /\ IdleHull /\ IdleGeo /\ IdleCtrl /\ IdleRun /\ IdlePhys
NextFacet == Erode \/ Analyse
SpecFacet == StartFacet /\ [][NextFacet]_vars

\* ------------------------------------------------- GenericReaction.run
\* run (lines 55-77) for one reaction pore. The guess x and the residual
\* are whole numbers of thousandths, so that the default tol of line 55 is
\* TolDefault; alg.solve()[Ps] is any function of the guess.
\* Python's None, and a value that is not None.
None == {}
Some(x) == {x}

\* The guesses.
Guesses == 0..MaxX

\* sp.sum(sp.absolute(x_new - x)) (line 71).
Residual(x_new, x) == IF x_new >= x THEN x_new - x ELSE x - x_new

\* run is called with a guess and a tol (line 55).
InitRun ==
  /\ rpc = "run"
  /\ rsolve \in [Guesses -> Guesses]
  /\ rtol \in 1..MaxTol
  /\ \E x \in Guesses : rstack = <<[x |-> x, tol |-> rtol]>>
  /\ rcompared = <<>> /\ rmet = None /\ rvalue = None /\ rresult = None

\* The invocation that line 77 makes: of all the parameters of run it is
\* given x alone.
Recurse(x_new) == [x |-> x_new, tol |-> TolDefault]

\* The body of the invocation on top of the stack (lines 56-77), up to its
\* return or to the call of line 77.
Run ==
  /\ rpc = "run"
  /\ \E f \in {rstack[Len(rstack)]} : \E x_new \in {rsolve[f.x]} :
       /\ rcompared' = Append(rcompared, f.tol)
       /\ IF Residual(x_new, f.x) < f.tol
            THEN /\ rpc' = "return"
                 /\ rvalue' = Some(f.x)
                 /\ rmet' = Some(f.x)
                 /\ rstack' = rstack
            ELSE /\ Len(rstack) < MaxDepth
                 /\ rpc' = "run"
                 /\ rstack' = Append(rstack, Recurse(x_new))
                 /\ UNCHANGED <<rvalue, rmet>>
  /\ UNCHANGED <<rsolve, rtol, rresult>>
  /\ UNCHANGED notRun

\* What the invocation that called line 77 returns once the call is back:
\* the statement is the last of run and has no return.
AfterCall(value) == None

\* The invocation on top of the stack returns: to the caller of run, or to
\* line 77 of the invocation below it.
Return ==
  /\ rpc = "return"
  /\ IF Len(rstack) = 1
       THEN /\ rpc' = "done"
            /\ rresult' = rvalue
            /\ rvalue' = rvalue
       ELSE /\ rpc' = "return"
            /\ rvalue' = AfterCall(rvalue)
            /\ rresult' = rresult
  /\ rstack' = SubSeq(rstack, 1, Len(rstack) - 1)
  /\ UNCHANGED <<rsolve, rtol, rcompared, rmet>>
  /\ UNCHANGED notRun

StartRun ==
  InitRun /\ IdleImage /\ IdleHull /\ IdleGeo /\ IdleCtrl /\ IdleFacet /\ IdlePhys
NextRun == Run \/ Return
SpecRun == StartRun /\ [][NextRun]_vars

\* ------------------------------------------------------ GenericPhysics
\* __init__ (lines 35-78), set_phase (80-92) and set_geometry (94-103) of
\* the physics Self on a project that holds a network, a phase, up to
\* MaxGeoms geometries and up to MaxPhys other physics.
Network == <<"net", 1>>
\* The phase of the project, the phase GenericPhase() makes, and a phase
\* of another project.
OwnPhase == <<"phase", 1>>
NewPhase == <<"phase", 0>>
ForeignPhase == <<"phase", 2>>
Phases == {OwnPhase, NewPhase, ForeignPhase}
\* The geometries a project may hold, the geometry GenericGeometry()
\* makes, and a geometry of another project.
Geoms == {<<"geo", i>> : i \in 1..MaxGeoms}
NewGeom == <<"geo", 0>>
ForeignGeom == <<"geo", MaxGeoms + 1>>
\* The physics under construction, and the other physics of the project.
Self == <<"phys", 0>>
OtherPhysics == {<<"phys", i>> : i \in 1..MaxPhys}

\* 'pore.'+self.name and 'throat.'+self.name (lines 86-90).
PoreKey(o) == <<"pore", o>>
ThroatKey(o) == <<"throat", o>>
\* The labels a phase holds for a set of physics.
LabelsOf(phase, P) ==
  {<<phase, PoreKey(o)>> : o \in P} \cup {<<phase, ThroatKey(o)>> : o \in P}

\* The value that is not None.
Get(s) == CHOOSE x \in s : TRUE

\* The modes set_phase is called with.
Modes == {"add", "remove", "clear"}

\* A project with a network, a phase, some geometries and some physics,
\* each physics with its labels on the phase; the constructor is called
\* with any phase and any geometry, or none.
InitPhys ==
  /\ ppc = "new"
  /\ \E G \in SUBSET Geoms : \E P \in SUBSET OtherPhysics :
       /\ pproject = {Network, OwnPhase} \cup G \cup P
       /\ plabels = LabelsOf(OwnPhase, P)
  /\ pphase \in {None, Some(OwnPhase), Some(ForeignPhase)}
  /\ pgeometry \in {None} \cup {Some(g) : g \in Geoms \cup {ForeignGeom}}
  /\ plocations = {} /\ perror = FALSE

\* The constructor of the base class (called on lines 50, 56 and 64)
\* adds the new object to the project: self.project and self.name are
\* read right after it (lines 52, 83, 84).
Register(proj, o) == proj \cup {o}

\* set_phase (lines 80-92): whether it raises, and the labels it leaves.
SetPhase(proj, labels, phase, mode) ==
  IF phase \notin proj
    THEN [raised |-> TRUE, labels |-> labels]
    ELSE IF mode = "add"
      THEN [raised |-> FALSE,
            labels |-> labels \cup LabelsOf(phase, {Self})]
      ELSE IF mode = "remove"
        THEN [raised |-> FALSE,
              labels |-> labels \ LabelsOf(phase, {Self})]
        ELSE [raised |-> TRUE, labels |-> labels]

\* set_geometry (lines 94-103): whether it raises, and the geometries whose
\* locations the physics holds.
SetGeometry(proj, locs, geometry) ==
  IF geometry \notin proj
    THEN [raised |-> TRUE, locs |-> locs]
    ELSE [raised |-> FALSE, locs |-> locs \cup {geometry}]

\* self.project.geometries() (line 60).
Geometries(proj) == proj \cap (Geoms \cup {NewGeom})

\* Lines 59-78: the project and the outcome of set_geometry, with
\* raised for the exception of lines 74-76 as well.
GeometryPart(proj) ==
  IF pgeometry = None
    THEN IF Cardinality(Geometries(proj)) = 0
           THEN [proj |-> Register(proj, NewGeom),
                 set |-> SetGeometry(Register(proj, NewGeom), plocations,
                                     NewGeom)]
           ELSE IF Cardinality(Geometries(proj)) = 1
             THEN [proj |-> proj,
                   set |-> SetGeometry(proj, plocations,
                                       Get(Geometries(proj)))]
             ELSE [proj |-> proj,
                   set |-> [raised |-> TRUE, locs |-> plocations]]
    ELSE [proj |-> proj,
          set |-> SetGeometry(proj, plocations, Get(pgeometry))]

\* __init__ (lines 35-78).
PhysicsInit ==
  /\ ppc = "new"
  /\ \E phase \in {IF pphase = None THEN NewPhase ELSE Get(pphase)} :
     \E proj \in {IF pphase = None
                    THEN Register(Register(pproject, Self), NewPhase)
                    ELSE Register(pproject, Self)} :
     \E sp \in {SetPhase(proj, plabels, phase, "add")} :
       /\ plabels' = sp.labels
       /\ IF sp.raised
            THEN /\ ppc' = "raised"
                 /\ pproject' = proj
                 /\ plocations' = plocations
            ELSE \E gp \in {GeometryPart(proj)} :
                   /\ ppc' = IF gp.set.raised THEN "raised" ELSE "made"
                   /\ pproject' = gp.proj
                   /\ plocations' = gp.set.locs
  /\ UNCHANGED <<pphase, pgeometry, perror>>
  /\ UNCHANGED notPhys

\* set_phase is called on the constructed physics.
SetPhaseCall(phase, mode) ==
  /\ ppc = "made"
  /\ \E sp \in {SetPhase(pproject, plabels, phase, mode)} :
       /\ plabels' = sp.labels
       /\ perror' = sp.raised
  /\ UNCHANGED <<ppc, pphase, pgeometry, pproject, plocations>>
  /\ UNCHANGED notPhys

StartPhys ==
  InitPhys /\ IdleImage /\ IdleHull /\ IdleGeo /\ IdleCtrl /\ IdleFacet /\ IdleRun
NextPhys ==
  \/ PhysicsInit
  \/ \E phase \in Phases : \E mode \in Modes : SetPhaseCall(phase, mode)
SpecPhys == StartPhys /\ [][NextPhys]_vars

\* ---------------------------------------------------------------- claims
\* The fibre image one chunk over the whole grid gives for pore_space.
SingleChunkImage ==
  ChunkFibre([v \in Vox(lx, ly, lz) |-> 0], pore_space, <<0, 0, 0>>,
             <<lx, ly, lz>>, fibre_rad)

OutOfGrid(p) ==
  \/ p[1] < 0 \/ p[1] >= lx
  \/ p[2] < 0 \/ p[2] >= ly
  \/ p[3] < 0 \/ p[3] >= lz

\* C6: in a run whose arrays were allocated, the handling of a line point
\* that lies outside the grid clears no voxel of pore_space and leaves the
\* rasterization running.
C6_OutOfGridDropped ==
  [][(pc = "raster" /\ alloc_fail = 0 /\ npts' = npts + 1 /\ OutOfGrid(pt'))
       => (pore_space' = pore_space /\ pc' = "raster")]_vars

\* C7: when an allocation of the full-domain arrays has failed,
\* _get_fibre_image does not end by raising: it ends with a fibre image and
\* a distance image over the whole lx x ly x lz domain.
C7_FallbackCompletes ==
  (alloc_fail # 0 /\ pc \in {"done", "raised"})
    => /\ pc = "done"
       /\ DOMAIN fibre_image = Vox(lx, ly, lz)
       /\ DOMAIN dt_image = Vox(lx, ly, lz)

\* C3: after in_hull_volume and _indiameter_from_fibres, every pore index
\* that labels no voxel of the hull image has volume 0 and in-diameter 0.
C3_EmptyPoreIsZero ==
  hpc = "done" =>
    \A p \in 0..(Np-1) :
      Freq(hull_image, p) = 0 =>
        (pore_volume[p] = 0 /\ LenZero(pore_indiameter[p]))

\* C8: a pore whose hull construction fails, or whose bounding box does not
\* fit the label grid, does not abort in_hull_volume, and the pore ends with
\* volume 0.
C8_FailureIsLocal ==
  failed # {} =>
    /\ hpc # "raised"
    /\ hpc = "done" => \A p \in failed : pore_volume[p] = 0

\* C9: when inhull has classified the bounding box of a hull, a voxel of it
\* is marked 1 if and only if it passes the test of every facet plane of
\* the hull, and is marked 0 otherwise.
C9_InsideIffAllPlanes ==
  (hpc \in {"pores", "count", "raised"} /\ verts # NoHull /\ ~HullFails(verts))
    => \A planes \in {Planes(Minus(verts.hi, verts.lo))} :
         \A v \in DOMAIN dom :
           /\ dom[v] \in {0, 1}
           /\ dom[v] = 1 <=>
                \A k \in 1..verts.nf : PlaneTest(planes[((k - 1) % 12) + 1], v)

\* C10: while and after in_hull_volume processes the pores, every voxel of
\* the label grid holds -1 if the hull of no processed pore held it, and
\* otherwise the index of the last processed pore whose hull held it.
C10_LastHolderLabelsVoxel ==
  hpc \in {"pores", "count", "indiam", "done"} =>
    \A v \in DOMAIN hull_image :
      hull_image[v] = IF classified[v] = {} THEN -1 ELSE SetMax(classified[v])


\* The place of a statement in the log, 0 when it has not run.
Ran(name) ==
  IF \E i \in 1..Len(log) : log[i] = name
  THEN CHOOSE i \in 1..Len(log) : log[i] = name
  ELSE 0
\* The statements after _throat_props that read the throat geometry.
GeometryReaders == {"throat.c2c", "regenerate_models"}

\* C2: in a pass of __init__, the trimming of the occluded throats runs
\* only when _throat_props has finished, no statement that reads the throat
\* geometry (throat.c2c, regenerate_models) runs before the trimming, and a
\* pass that ends has trimmed.
C2_TrimAfterPropsBeforeReaders ==
  /\ Ran("trim_occluded_throats") > 0 =>
       /\ Ran("_throat_props") > 0
       /\ Ran("_throat_props") < Ran("trim_occluded_throats")
       /\ gpc # "props"
  /\ \A name \in GeometryReaders :
       Ran(name) > 0 =>
         /\ Ran("trim_occluded_throats") > 0
         /\ Ran("trim_occluded_throats") < Ran(name)
  /\ gpc = "done" => Ran("trim_occluded_throats") > 0
C2_Witness ==
  /\ gpc = "done"
  /\ Ran("_throat_props") > 0
  /\ Ran("throat.c2c") > 0
  /\ Ran("regenerate_models") > 0
  /\ Occluded(throat_area) # {}
  /\ active # {}

Positive(q) == q[1] > 0 /\ q[2] > 0
PositiveDiameter(d) == d[1] > 0 /\ d[2] > 0 /\ d[3] > 0
C5_HalfSpanSkipped ==
  \A t \in Throats :
    (gpc = "props" /\ t < ti /\
       2 * (res * offset) >= res * MaxFactor(throat_vertices[t])) =>
      /\ t \notin entered
      /\ throat_area[t][1] = 0
      /\ throat_perimeter[t][1] = 0
      /\ throat_diameter[t][1] = 0
      /\ throat_indiameter[t][1] = 0
      /\ throat_offset_vertices[t] = <<>>

\* C11: when in_hull_volume has returned, for every pore p pore_voxels[p]
\* is the number of voxels labelled p whose fibre flag is 1, fibre_voxels[p]
\* the number labelled p whose flag is 0 (so a voxel labelled below 0 is
\* counted for no pore), pore_volume[p] is pore_voxels[p] * vox_len^3, is
\* not negative, and is 0 exactly when no voxel of flag 1 is labelled p.
C11_VoxelCountsAndVolume ==
  hpc \in {"indiam", "done"} =>
    /\ DOMAIN pore_voxels = 0..(Np-1)
    /\ DOMAIN fibre_voxels = 0..(Np-1)
    /\ \A p \in 0..(Np-1) :
         /\ pore_voxels[p] =
              Cardinality({v \in DOMAIN hull_image :
                             hull_image[v] = p /\ fibre_image[v] = 1})
         /\ fibre_voxels[p] =
              Cardinality({v \in DOMAIN hull_image :
                             hull_image[v] = p /\ fibre_image[v] = 0})
         /\ pore_volume[p] = pore_voxels[p] * VoxLen * VoxLen * VoxLen
         /\ pore_volume[p] >= 0
         /\ pore_volume[p] = 0 <=>
              ~\E v \in DOMAIN hull_image :
                 hull_image[v] = p /\ fibre_image[v] = 1
C11_Witness ==
  /\ hpc \in {"indiam", "done"}
  /\ \E p \in 0..(Np-1) : pore_voxels[p] > 0 /\ fibre_voxels[p] > 0
  /\ \E p \in 0..(Np-1) : pore_volume[p] = 0
  /\ \E v \in DOMAIN hull_image : hull_image[v] = -1

\* C12: every call Controller() returns the one instance, and the keys
\* seen through any two references are the same, after any calls and
\* registry operations.
C12_Singleton ==
  /\ cmade <= 1
  /\ \A r \in crefs : r = cinstance
  /\ \A r1 \in crefs : \A r2 \in crefs : r1 = r2 /\ cdict[r1] = cdict[r2]
C12_Witness ==
  /\ ccalls >= 2
  /\ last.op = "new"
  /\ cdict[cinstance] # <<>>

\* The objects registered under the keys.
Registered(keys) == {keys[i][2] : i \in {j \in 1..Len(keys) : IsObject(keys[j])}}

\* C13: after purge_object(obj) on a registered object, its name is no key
\* of the Controller, no object still registered holds a label of its name
\* or lists it in _geometries, _phases or _physics, its _sim is an empty
\* dict, and every other key of the Controller is still there.
C13_PurgeRemovesAllTraces ==
  (last.op = "purge" /\ Has(last.before, NameKey(last.obj))) =>
    /\ ~Has(cdict[last.ref], NameKey(last.obj))
    /\ \A m \in marks :
         ~(m[1] \in Registered(cdict[last.ref]) /\ m[3] = last.obj)
    /\ osim[last.obj] = Empty
    /\ \A i \in 1..Len(last.before) :
         last.before[i] # NameKey(last.obj) =>
           Has(cdict[last.ref], last.before[i])

\* C14: after clone_object(obj) the Controller holds the keys it held
\* before the call.
C14_CloneLeavesController ==
  last.op = "clone" => cdict[last.ref] = last.before

\* C15: after clear() the Controller is empty and the simulation of every
\* object that was registered is a plain dict; after update() with that
\* dict the Controller holds every object that was registered before the
\* clear(), and the _sim of each is the Controller.
C15_ClearUpdateRoundTrip ==
  /\ last.op = "clear" =>
       /\ cdict[last.ref] = <<>>
       /\ \A o \in Registered(last.before) : osim[o] = InDict(last.arg)
  /\ (last.op = "update" /\ last.arg > 0) =>
       \A o \in Registered(cleared[last.arg]) :
         /\ Has(cdict[last.ref], NameKey(o))
         /\ osim[o] = InCtrl(last.ref)

\* The voxels the chunk (i, j, k) writes into fibre_space and dt: the slice
\* [cxmin:cxmax, cymin:cymax, czmin:czmax] of lines 573-581.
WrittenBy(c) ==
  Sub(<<ChunkMin(c[1], chunk_len), ChunkMin(c[2], chunk_len),
        ChunkMin(c[3], chunk_len)>>,
      <<ChunkMax(c[1], chunk_len, fibre_rad, lx),
        ChunkMax(c[2], chunk_len, fibre_rad, ly),
        ChunkMax(c[3], chunk_len, fibre_rad, lz)>>)

\* The chunks the loop has processed: those before (ci, cj, ck) in the order
\* of the three nested loops while the loop runs, all of them after it.
ChunksDone ==
  LET all == (0..(cx-1)) \X (0..(cy-1)) \X (0..(cz-1))
      before(c) == \/ c[1] < ci
                   \/ c[1] = ci /\ c[2] < cj
                   \/ c[1] = ci /\ c[2] = cj /\ c[3] < ck
  IN IF pc = "chunks" THEN {c \in all : before(c)}
     ELSE IF pc \in {"final", "done"} THEN all
     ELSE {}

PaddedLo(i, clen, rad) == Max2(i * clen - PadFactor * rad, 0)
PaddedHi(i, clen, rad, len) == Min2((i + 1) * clen + PadFactor * rad, len)

FibreSeeds == {s \in Vox(lx, ly, lz) : pore_space[s] = 0}

\* The square of d(v), the distance from voxel v to the nearest fibre seed.
NearestSq(v) == SetMin({D2(v, s) : s \in FibreSeeds})

\* C18: after _get_fibre_image, a voxel at distance d from the nearest fibre
\* seed is 0 in the fibre image when d <= fibre_rad and 1 otherwise, and the
\* distance image holds max(d - fibre_rad, 0) for it; every seed voxel is 0
\* in the fibre image, and the fibre image is 1 exactly where the distance
\* image is above zero.
C18_ImageFromSeedDistance ==
  pc = "done" =>
    /\ FibreSeeds # {} =>
         \A v \in Vox(lx, ly, lz) :
           IF NearestSq(v) <= Sq(fibre_rad)
           THEN /\ fibre_image[v] = 0
                /\ ~DtPos(dt_image[v]) /\ ~DtNeg(dt_image[v])
           ELSE /\ fibre_image[v] = 1
                /\ dt_image[v] = <<NearestSq(v), fibre_rad>>
    /\ \A s \in FibreSeeds : fibre_image[s] = 0
    /\ \A v \in Vox(lx, ly, lz) : fibre_image[v] = 1 <=> DtPos(dt_image[v])

\* _get_fibre_image has returned an image with a seed, a voxel within
\* fibre_rad of it that is no seed, and a voxel further away.
C18_Witness ==
  /\ pc = "done"
  /\ fibre_rad > 0
  /\ \E v \in Vox(lx, ly, lz) \ FibreSeeds :
       /\ FibreSeeds # {}
       /\ NearestSq(v) <= Sq(fibre_rad)
       /\ fibre_image[v] = 0
  /\ \E v \in Vox(lx, ly, lz) : fibre_image[v] = 1 /\ DtPos(dt_image[v])

\* The connected regions of a set of pixels, a pixel being connected to its
\* eight neighbours.
RECURSIVE Grow(_, _)
Grow(S, C) ==
  LET more == {p \in S \ C :
                 \E q \in C : p[1] - q[1] \in -1..1 /\ p[2] - q[2] \in -1..1}
  IN IF more = {} THEN C ELSE Grow(S, C \cup more)
ConnectedRegions(S) == {Grow(S, {p}) : p \in S}

\* C19: a throat whose eroded cross-section has more than one connected
\* region is found to have a region count other than one and keeps the
\* zeroed defaults: area 0 and no offset vertices.
C19_MultiRegionSkipped ==
  (fpc = "done" /\ Cardinality(ConnectedRegions(eroded)) > 1) =>
    /\ regions # 1
    /\ area_i = 0
    /\ offset_verts = {}

\* Statement a has run before statement b, if b has run at all.
Before(a, b) == Ran(b) > 0 => (Ran(a) > 0 /\ Ran(a) < Ran(b))

\* C20 as stated: the pass runs the fibre image and hull labels
\* (in_hull_volume), then the pore in-diameters, then the throat
\* cross-sections (_throat_props), then the centroids and throat.c2c, then
\* the removal of the occluded throats: throat.c2c is computed before the
\* trimming, for every throat, and in_hull_volume runs before every other
\* statement.
C20_C2cBeforeTrim ==
  /\ Before("in_hull_volume", "pore.indiameter")
  /\ Before("pore.indiameter", "_throat_props")
  /\ Before("_throat_props", "throat.centroid")
  /\ Before("_throat_props", "pore.centroid")
  /\ Before("_throat_props", "throat.c2c")
  /\ Before("throat.c2c", "trim_occluded_throats")
  /\ throat_c2c # Unbound => DOMAIN throat_c2c = Throats
  /\ \A i \in 1..Len(log) : log[i] = "in_hull_volume" <=> i = 1

\* C20, amended: the pass runs in_hull_volume, then the centroids of the
\* throat and pore vertices, then the pore in-diameters, then the throat
\* cross-sections (_throat_props), then the removal of the occluded
\* throats, then throat.c2c: throat.c2c is computed after the trimming, for
\* the throats the trimming left, and in_hull_volume runs before every
\* other statement.
C20_StageOrder ==
  /\ Before("in_hull_volume", "throat.centroid")
  /\ Before("throat.centroid", "pore.centroid")
  /\ Before("pore.centroid", "pore.indiameter")
  /\ Before("pore.indiameter", "_throat_props")
  /\ Before("_throat_props", "trim_occluded_throats")
  /\ Before("trim_occluded_throats", "throat.c2c")
  /\ throat_c2c # Unbound =>
       DOMAIN throat_c2c = Throats \ Occluded(throat_area)
  /\ \A i \in 1..Len(log) : log[i] = "in_hull_volume" <=> i = 1

\* A pass has ended in which the trimming removed a throat and throat.c2c
\* was computed for the throats left.
C20_Witness ==
  /\ gpc = "done"
  /\ Ran("throat.c2c") > Ran("trim_occluded_throats")
  /\ Ran("trim_occluded_throats") > Ran("_throat_props")
  /\ throat_c2c # Unbound
  /\ DOMAIN throat_c2c # Throats
  /\ DOMAIN throat_c2c # {}

\* The number of facet planes of the hull h whose test voxel v passes.
PlanesPassed(h, v) ==
  Cardinality({k \in 1..h.nf :
                 PlaneTest(Planes(Minus(h.hi, h.lo))[((k - 1) % 12) + 1], v)})

\* C21: when inhull has run the loop over the planes of a hull, the counter
\* of every voxel of the bounding box is the number of facet planes whose
\* test the voxel passed: the unsigned 8-bit counter has not wrapped.
C21_CounterNeverWraps ==
  (hpc \in {"pores", "count", "raised"} /\ verts # NoHull /\ ~HullFails(verts))
    => \A v \in DOMAIN dom :
         PlaneCount(Planes(Minus(verts.hi, verts.lo)), verts.nf, v)
           = PlanesPassed(verts, v)

\* C22: when the outermost call of run has returned and some invocation,
\* at any depth, found the residual of its guess below its tol, the
\* outermost call returned that guess, not None, and every invocation
\* compared the residual with the tol the outermost call was given.
C22_ReturnsConvergedGuess ==
  (rpc = "done" /\ rmet # None)
    => /\ rresult = rmet
       /\ \A i \in 1..Len(rcompared) : rcompared[i] = rtol

\* C23: when the construction of a GenericPhysics has raised, the failed
\* physics is not registered in the project and no phase holds its
\* 'pore.<name>' or 'throat.<name>' label.
C23_FailedConstructionLeavesNoTrace ==
  ppc = "raised"
    => /\ Self \notin pproject
       /\ \A phase \in Phases : LabelsOf(phase, {Self}) \cap plabels = {}
====
